---- MODULE Spec2Model ----
(***************************************************************************)
(* Sparse variational GP layer of SVGP-VAE (SVIGP_Hensman_model.py).       *)
(*                                                                         *)
(* The module is a TF1 graph program: the constructor and the forward /    *)
(* predict functions build tensors that are expressions over tf.Variables, *)
(* and each session run evaluates them on the variables' current values.   *)
(* The state is the set of variables; an action is one optimizer           *)
(* assignment or one evaluation of a tensor the source builds.             *)
(*                                                                         *)
(* Floating-point numbers are modelled by exact fractions n/d extended with*)
(* the IEEE specials: 1/0 = +inf, -1/0 = -inf, 0/0 = NaN.  Rounding is not  *)
(* modelled.                                                               *)
(***************************************************************************)
EXTENDS Integers, Sequences, FiniteSets, TLC

\* The element of a singleton.  An intermediate result is named by binding it,
\* The({ f(v) : v \in {e} }), so that it is computed once.
The(S) == CHOOSE r \in S : TRUE

(* ----------------------------- numbers -------------------------------- *)

Abs(i) == IF i < 0 THEN -i ELSE i

Sgn(i) == IF i < 0 THEN -1 ELSE IF i > 0 THEN 1 ELSE 0

RECURSIVE Gcd(_, _)
Gcd(a, b) == IF b = 0 THEN a ELSE Gcd(b, a % b)

\* n/d in lowest terms with d >= 0; d = 0 encodes +inf, -inf, NaN.
Frac(n, d) ==
    IF d = 0 THEN [n |-> Sgn(n), d |-> 0]
    ELSE LET g == Gcd(Abs(n), Abs(d))
             s == Sgn(d)
         IN [n |-> (s * n) \div g, d |-> Abs(d) \div g]

Num(i) == [n |-> i, d |-> 1]

Zero == Num(0)

One == Num(1)

Half == Frac(1, 2)

NaN == [n |-> 0, d |-> 0]

PosInf == [n |-> 1, d |-> 0]

NegInf == [n |-> -1, d |-> 0]

IsFinite(a) == a.d # 0

IsNaN(a) == a.d = 0 /\ a.n = 0

Add(a, b) ==
    IF a.d = 0 /\ b.d = 0
    THEN (IF a.n = b.n THEN a ELSE NaN)
    ELSE IF a.d = 0 THEN a
    ELSE IF b.d = 0 THEN b
    ELSE LET g == Gcd(a.d, b.d)   \* over the least common denominator
         IN Frac(a.n * (b.d \div g) + b.n * (a.d \div g), (a.d \div g) * b.d)

Neg(a) == [n |-> -a.n, d |-> a.d]

Sub(a, b) == Add(a, Neg(b))

Mul(a, b) ==
    IF a.d = 0 \/ b.d = 0 THEN Frac(a.n * b.n, 0)
    ELSE LET g1 == Gcd(Abs(a.n), b.d)   \* cancel across before multiplying
             g2 == Gcd(Abs(b.n), a.d)
         IN Frac((a.n \div g1) * (b.n \div g2), (a.d \div g2) * (b.d \div g1))

\* 1/(+0) = +inf as in IEEE arithmetic; the zero of the model is +0.
Recip(a) ==
    IF a.d = 0 THEN (IF a.n = 0 THEN NaN ELSE Zero)
    ELSE IF a.n = 0 THEN PosInf
    ELSE Frac(a.d, a.n)

Div(a, b) == Mul(a, Recip(b))

\* IEEE comparisons: false whenever an operand is NaN.
Lt(a, b) ==
    /\ ~IsNaN(a) /\ ~IsNaN(b)
    /\ IF a.d = 0 \/ b.d = 0
       THEN (IF a.d = 0 /\ b.d = 0 THEN a.n < b.n
             ELSE IF a.d = 0 THEN a.n < 0 ELSE b.n > 0)
       ELSE a.n * b.d < b.n * a.d

Le(a, b) == ~IsNaN(a) /\ ~IsNaN(b) /\ ~Lt(b, a)

\* sqrt of a fraction whose numerator and denominator are perfect squares.
ISqrt(k) == CHOOSE r \in 0..k : r * r = k

Sqrt(a) ==
    IF a.d = 0 THEN (IF a.n > 0 THEN PosInf ELSE NaN)
    ELSE IF a.n < 0 THEN NaN
    ELSE Frac(ISqrt(a.n), ISqrt(a.d))

\* tf.cast(float -> int64): truncation towards zero.
CastInt64(a) == Sgn(a.n) * (Abs(a.n) \div a.d)

\* exp(x) by its (2,2) Pade approximant (12 + 6x + x^2)/(12 - 6x + x^2):
\* positive for every x, 1 at 0, and exp(x) * exp(-x) = 1.
Exp(x) ==
    The({ Div(p, q) : p \in {Add(Add(Num(12), Mul(Num(6), x)), Mul(x, x))},
                      q \in {Add(Sub(Num(12), Mul(Num(6), x)), Mul(x, x))} })

(* ------------------------- vectors, matrices -------------------------- *)

\* A vector is a sequence of numbers, a matrix a sequence of rows.  Vec and Mat
\* give the sequence as an explicit tuple of its entries.
Vec(f) == f \o <<>>

Mat(f) == [i \in 1..Len(f) |-> Vec(f[i])] \o <<>>

RECURSIVE SumRec(_)
SumRec(s) == IF s = <<>> THEN Zero ELSE Add(Head(s), SumRec(Tail(s)))

SumSeq(s) == The({ SumRec(v) : v \in {Vec(s)} })

Dot(u, v) == SumSeq([i \in 1..Len(u) |-> Mul(u[i], v[i])])

Rows(A) == Len(A)

Cols(A) == IF A = <<>> THEN 0 ELSE Len(A[1])

Transpose(A) == Mat([j \in 1..Cols(A) |-> [i \in 1..Rows(A) |-> A[i][j]]])

MatMul(A, B) ==
    Mat([i \in 1..Rows(A) |-> [j \in 1..Cols(B) |->
        SumSeq([k \in 1..Cols(A) |-> Mul(A[i][k], B[k][j])])]])

MatVec(A, v) == Vec([i \in 1..Rows(A) |-> Dot(A[i], v)])

\* the subtrahend forgotten
MatSubForgotten(A, B) == A

MatSub(A, B) ==
    Mat([i \in 1..Rows(A) |-> [j \in 1..Cols(A) |-> Sub(A[i][j], B[i][j])]])

DiagPart(A) == Vec([i \in 1..Rows(A) |-> A[i][i]])

Trace(A) == SumSeq(DiagPart(A))

Eye(n) == Mat([i \in 1..n |-> [j \in 1..n |-> IF i = j THEN One ELSE Zero]])

ZeroVec(n) == Vec([i \in 1..n |-> Zero])

\* the sequence s without its k-th element
Drop(s, k) == Vec([i \in 1..(Len(s) - 1) |-> IF i < k THEN s[i] ELSE s[i + 1]])

Minor(A, r, c) == Mat([i \in 1..(Rows(A) - 1) |-> Drop(Drop(A, r)[i], c)])

\* Laplace expansion along the first row
RECURSIVE DetRec(_)
DetRec(A) ==
    IF Rows(A) = 0 THEN One
    ELSE SumSeq([j \in 1..Rows(A) |->
            Mul(Mul(Num(IF j % 2 = 1 THEN 1 ELSE -1), A[1][j]),
                The({ DetRec(B) : B \in {Minor(A, 1, j)} }))])

Det(A) == The({ DetRec(B) : B \in {Mat(A)} })

Leading(A, k) == Mat([i \in 1..k |-> [j \in 1..k |-> A[i][j]]])

\* The lower-triangular factor of tf.linalg.cholesky, represented by the squares
\* of its diagonal entries (the pivots det(A_k)/det(A_k-1)), the only part of
\* the factor the source reads.  The factorisation fails on a non-positive pivot.
cholesky_pivots(A) ==
    Vec([k \in 1..Rows(A) |-> Div(Det(Leading(A, k)), Det(Leading(A, k - 1)))])

cholesky_with(piv) == [ok |-> \A k \in 1..Len(piv) : Lt(Zero, piv[k]), diag_sq |-> piv]

cholesky(A) == The({ cholesky_with(piv) : piv \in {cholesky_pivots(A)} })

\* tf.linalg.inv: adjugate over determinant; fails on a singular input.
inv_with(A, dt) ==
    [ok |-> IsFinite(dt) /\ dt # Zero,
     val |-> Mat([i \in 1..Rows(A) |-> [j \in 1..Rows(A) |->
                Div(Mul(Num(IF (i + j) % 2 = 0 THEN 1 ELSE -1), Det(Minor(A, j, i))), dt)]])]

inv(A) == The({ inv_with(A, dt) : dt \in {Det(A)} })

(* --------------------- values that contain logarithms ------------------ *)

\* rat + sum over k in DOMAIN logs of logs[k] * ln(k) + log2pi * ln(2 pi),
\* every key k a finite fraction > 0 other than 1.
NoLogs == [k \in {} |-> Zero]

Lin(r) == [rat |-> r, logs |-> NoLogs, log2pi |-> Zero]

\* the value with the coefficients coef, the zero ones left out
LinNorm(r, coef, c2pi) ==
    IF ~IsFinite(r) THEN Lin(r)
    ELSE [rat |-> r, logs |-> [k \in {j \in DOMAIN coef : coef[j] # Zero} |-> coef[k]],
          log2pi |-> c2pi]

LinCoef(a, k) == IF k \in DOMAIN a.logs THEN a.logs[k] ELSE Zero

LinAddOf(a, b) ==
    The({ LinNorm(Add(a.rat, b.rat), coef, Add(a.log2pi, b.log2pi)) :
          coef \in { [k \in DOMAIN a.logs \cup DOMAIN b.logs |->
                        Add(LinCoef(a, k), LinCoef(b, k))] } })

LinAdd(a0, b0) == The({ LinAddOf(a, b) : a \in {a0}, b \in {b0} })

\* f * a for a fraction f; a non-finite f is absorbing
LinScaleOf(f, a) ==
    IF ~IsFinite(f) THEN Lin(IF a = Lin(a.rat) THEN Mul(f, a.rat) ELSE NaN)
    ELSE The({ LinNorm(Mul(f, a.rat), coef, Mul(f, a.log2pi)) :
               coef \in { [k \in DOMAIN a.logs |-> Mul(f, a.logs[k])] } })

LinScale(f0, a0) == The({ LinScaleOf(f, a) : f \in {f0}, a \in {a0} })

LinSub(a, b) == The({ LinAdd(a, nb) : nb \in {LinScale(Num(-1), b)} })

\* tf.log: NaN below zero, -inf at zero, no error raised
Log(x) ==
    IF IsNaN(x) \/ Lt(x, Zero) THEN Lin(NaN)
    ELSE IF x = Zero THEN Lin(NegInf)
    ELSE IF x = PosInf THEN Lin(PosInf)
    ELSE IF x = One THEN Lin(Zero)
    ELSE [rat |-> Zero, logs |-> [k \in {x} |-> One], log2pi |-> Zero]

Log2Pi == [rat |-> Zero, logs |-> NoLogs, log2pi |-> One]

RECURSIVE ConcatRec(_)
ConcatRec(ss) == IF ss = <<>> THEN <<>> ELSE Head(ss) \o ConcatRec(Tail(ss))

Concat(ss) == The({ ConcatRec(v) : v \in {Vec(ss)} })

RECURSIVE LinSumRec(_)
LinSumRec(s) == IF s = <<>> THEN Lin(Zero) ELSE LinAdd(Head(s), LinSumRec(Tail(s)))

LinSum(s) == The({ LinSumRec(v) : v \in {Vec(s)} })

(* ------------------------------ state --------------------------------- *)

VARIABLES
    jitter,                 \* self.jitter
    N_train,                \* self.N_train
    K_obj_normalize,        \* self.K_obj_normalize
    inducing_index_points,  \* self.inducing_index_points, M rows
    l_GP,                   \* self.l_GP
    amplitude,              \* self.amplitude
    object_vectors,         \* self.object_vectors: None or the embedding table
    loc,                    \* self.variational_inducing_observations_loc, one per channel
    scale,                  \* self.variational_inducing_observations_scale, one per channel
    noise,                  \* self.noise
    res                     \* the last evaluation: what was run, on what, and its value

params == <<jitter, N_train, K_obj_normalize, inducing_index_points, l_GP, amplitude,
            object_vectors, loc, scale, noise>>

vars == <<params, res>>

None == "None"

\* no run is under way
Idle == [op |-> "idle"]

\* A row of auxiliary data as the kernel sees it: column 0 the object id,
\* column 1 the view angle (in units of pi), columns 2.. the object features.
Row(id, view, obj) == [id |-> Num(id), view |-> view, obj |-> obj]

V(a, b) == <<Num(a), Num(b)>>

\* number of latent channels, self.L
L == Len(loc)

\* self.nr_inducing
nr_inducing == Len(inducing_index_points)

(* ------------------------------ kernels -------------------------------- *)

\* sin(t * pi / 2)^2 for t a multiple of 1/2
SinSqHalfPi(t) ==
    LET q == (2 * t.n) \div t.d   \* t in half units
    IN IF q % 2 = 1 THEN Half ELSE IF q % 4 = 0 THEN Zero ELSE One

\* tfk.ExpSinSquared(amplitude, length_scale, period = 2 pi) on scalar features:
\* amplitude^2 * exp(-2 sin^2(pi |x - y| / period) / length_scale^2)
\* with x and y in units of pi, pi |x - y| / period = |x - y| * pi / 2
AbsF(a) == IF a.n < 0 THEN Neg(a) ELSE a

log_kernel_view(x, y) ==
    Div(Mul(Num(-2), SinSqHalfPi(AbsF(Sub(x, y)))), Mul(l_GP, l_GP))

kernel_view(x, y) ==
    The({ Mul(Mul(amplitude, amplitude), e) :
          e \in { The({ Exp(log_kernel) : log_kernel \in {log_kernel_view(x, y)} }) } })

\* tfk.Linear() with no bias, slope or shift: the inner product
kernel_object(x, y) == Dot(x, y)

\* tf.math.reduce_euclidean_norm of one row
reduce_euclidean_norm(x) == Sqrt(Dot(x, x))

\* tf.gather(params, indices) along axis 0.  An index outside 0..rows-1 is an
\* InvalidArgumentError on a CPU kernel and a row of zeros on a GPU kernel.
gather(table, indices, device) ==
    LET inside(i) == 0 <= i /\ i < Len(table)
    IN IF device = "CPU" /\ \E k \in 1..Len(indices) : ~inside(indices[k])
       THEN [ok |-> FALSE, val |-> <<>>]
       ELSE [ok |-> TRUE,
             val |-> Mat([k \in 1..Len(indices) |->
                        IF inside(indices[k]) THEN table[indices[k] + 1]
                        ELSE [c \in 1..Len(table[1]) |-> Zero]])]

\* the object features of the rows x (lines 92-103)
object_features(x, is_inducing, device) ==
    IF object_vectors = None \/ is_inducing
    THEN [ok |-> TRUE, val |-> Mat([i \in 1..Len(x) |-> x[i].obj])]
    ELSE gather(object_vectors, Vec([i \in 1..Len(x) |-> CastInt64(x[i].id)]), device)

\* the normalisation of the diagonal branch left out
normalize_diag_skipped(k, x_norm, y_norm) == k

\* tf.math.divide(object_matrix, obj_norm) of line 116
normalize_diag(k, x_norm, y_norm) ==
    The({ Div(k, obj_norm) : obj_norm \in {Mul(x_norm, y_norm)} })

\* object_matrix * obj_norm with obj_norm = 1 / tf.matmul(...) of lines 120-123
normalize_matrix(k, x_norm, y_norm) ==
    The({ Mul(k, obj_norm) : obj_norm \in {Recip(Mul(x_norm, y_norm))} })

\* one entry of object_matrix, lines 107-123
object_entry(xo, yo, diag_only) ==
    IF ~K_obj_normalize THEN kernel_object(xo, yo)
    ELSE The({ IF diag_only THEN normalize_diag(k, x_norm, y_norm)
               ELSE normalize_matrix(k, x_norm, y_norm) :
               k \in {kernel_object(xo, yo)},
               x_norm \in {reduce_euclidean_norm(xo)},
               y_norm \in {reduce_euclidean_norm(yo)} })

\* one entry of lines 105-125: view kernel times object kernel
kernel_entry(xi, yj, xo, yo, diag_only) ==
    The({ Mul(view_matrix, object_matrix) :
          view_matrix \in {kernel_view(xi.view, yj.view)},
          object_matrix \in {object_entry(xo, yo, diag_only)} })

\* lines 105-125 on the object features x_object, y_object of the rows
kernel_matrix_of(x, y, x_object, y_object, diag_only) ==
    IF diag_only
    THEN Vec([i \in 1..Len(x) |-> kernel_entry(x[i], y[i], x_object[i], y_object[i], TRUE)])
    ELSE Mat([i \in 1..Len(x) |-> [j \in 1..Len(y) |->
            kernel_entry(x[i], y[j], x_object[i], y_object[j], FALSE)]])

kernel_matrix_on(x, y, xo, yo, diag_only) ==
    IF ~xo.ok \/ ~yo.ok THEN [ok |-> FALSE, val |-> <<>>]
    ELSE [ok |-> TRUE, val |-> kernel_matrix_of(x, y, xo.val, yo.val, diag_only)]

kernel_matrix(x, y, x_inducing, y_inducing, diag_only, device) ==
    The({ kernel_matrix_on(x, y, xo, yo, diag_only) :
          xo \in {object_features(x, x_inducing, device)},
          yo \in {object_features(y, y_inducing, device)} })

(* --------------------------- SVIGP_Hensman ----------------------------- *)

\* the matrix handed on without jitter
add_diagonal_jitter_skipped(matrix, jit) == matrix

\* tf.linalg.set_diag(matrix, tf.linalg.diag_part(matrix) + jitter)
add_diagonal_jitter(matrix, jit) ==
    Mat([i \in 1..Rows(matrix) |-> [j \in 1..Cols(matrix) |->
        IF i = j THEN Add(matrix[i][i], jit) ELSE matrix[i][j]]])

\* the value A_l A_l^T had at construction, A_l being the identity then
cov_mat_at_construction(lat_channel) == Eye(Len(scale[lat_channel]))

\* self.variational_inducing_observations_cov_mat[l]: the tensor
\* tf.matmul(A_l, tf.transpose(A_l)) built in __init__, evaluated at each run
\* on the current value of the variable A_l.
variational_inducing_observations_cov_mat(lat_channel) ==
    MatMul(scale[lat_channel], Transpose(scale[lat_channel]))

\* K_mm of lines 151 and 214
K_mm_of_inducing == kernel_matrix(inducing_index_points, inducing_index_points,
                                  TRUE, TRUE, FALSE, "CPU").val

\* log of the diagonal entry of a Cholesky factor whose square is p
LogSqrt(p) == LinScale(Half, Log(p))

\* one call of a linear-algebra kernel: the operation, its argument, and the
\* matrix the argument was made from
LinalgCall(op, arg, base) == [op |-> op, arg |-> arg, base |-> base]

\* lines 184-188: K_mm_inv k_i k_i^T K_mm_inv for the row k_i of K_nm
lambda_mat(K_mm_inv, k_i) ==
    MatMul(K_mm_inv,
           MatMul(Mat([r \in 1..Len(k_i) |-> [c \in 1..Len(k_i) |-> Mul(k_i[r], k_i[c])]]),
                  K_mm_inv))

\* line 193
trace_terms(S, K_mm_inv, K_nm, precision) ==
    Vec([i \in 1..Len(K_nm) |->
            Mul(precision, Trace(MatMul(S, lambda_mat(K_mm_inv, K_nm[i]))))])

\* line 181
K_tilde_terms(K_nn, K_nm, K_mm_inv, precision) ==
    The({ Vec([i \in 1..Len(K_nn) |-> Mul(precision, Sub(K_nn[i], nystrom[i]))]) :
          nystrom \in {DiagPart(MatMul(K_nm, MatMul(K_mm_inv, Transpose(K_nm))))} })

\* line 196
L_3_of(K_nn, K_nm, K_mm_inv, S, precision) ==
    Mul(Frac(-1, 2), Add(SumSeq(K_tilde_terms(K_nn, K_nm, K_mm_inv, precision)),
                         SumSeq(trace_terms(S, K_mm_inv, K_nm, precision))))

\* 2 * tf.reduce_sum(tf.log(tf.linalg.diag_part(chol))), lines 172-173
log_det(chol) ==
    LinScale(Num(2), LinSum([k \in 1..Len(chol.diag_sq) |-> LogSqrt(chol.diag_sq[k])]))

\* lines 175-178
KL_of(m, K_mm_chol, S_chol, K_mm_inv, cov_mat, variational_inducing_observations_loc) ==
    LinScale(Half,
        LinAdd(LinSub(log_det(K_mm_chol), log_det(S_chol)),
               Lin(Add(Add(Neg(m), Trace(MatMul(K_mm_inv, cov_mat))),
                       Dot(variational_inducing_observations_loc,
                           MatVec(K_mm_inv, variational_inducing_observations_loc))))))

\* lines 163-164
mean_of(K_nm, K_mm_inv, variational_inducing_observations_loc) ==
    MatVec(K_nm, MatVec(K_mm_inv, variational_inducing_observations_loc))

\* the values variational_loss returns, from the factors of lines 152-171
variational_loss_terms(lat_channel, K_nn, K_nm, cov_mat, K_mm_inv, K_mm_chol, S_chol, linalg) ==
    IF ~K_nn.ok \/ ~K_nm.ok \/ ~K_mm_inv.ok \/ ~K_mm_chol.ok \/ ~S_chol.ok
    THEN [ok |-> FALSE, linalg |-> linalg]
    ELSE [ok |-> TRUE,
          L_3_sum_term |-> L_3_of(K_nn.val, K_nm.val, K_mm_inv.val, cov_mat, Div(One, noise)),
          KL_term |-> KL_of(Num(nr_inducing), K_mm_chol, S_chol, K_mm_inv.val, cov_mat,
                            loc[lat_channel]),
          mean_vector |-> mean_of(K_nm.val, K_mm_inv.val, loc[lat_channel]),
          linalg |-> linalg]

\* lines 152, 169-171 on the jittered matrices
variational_loss_factored(lat_channel, K_mm, K_nn, K_nm, cov_mat, inv_arg, K_chol_arg, S_chol_arg) ==
    The({ variational_loss_terms(lat_channel, K_nn, K_nm, cov_mat, K_mm_inv, K_mm_chol,
                                 S_chol, linalg) :
          K_mm_inv \in {inv(inv_arg)},
          K_mm_chol \in {cholesky(K_chol_arg)},
          S_chol \in {cholesky(S_chol_arg)},
          linalg \in {<< LinalgCall("inv", inv_arg, K_mm),
                         LinalgCall("cholesky", K_chol_arg, K_mm),
                         LinalgCall("cholesky", S_chol_arg, cov_mat) >>} })

variational_loss_on(lat_channel, K_mm, K_nn, K_nm, cov_mat) ==
    The({ variational_loss_factored(lat_channel, K_mm, K_nn, K_nm, cov_mat,
                                    inv_arg, K_chol_arg, S_chol_arg) :
          inv_arg \in {add_diagonal_jitter(K_mm, jitter)},
          K_chol_arg \in {add_diagonal_jitter(K_mm, jitter)},
          S_chol_arg \in {add_diagonal_jitter(cov_mat, jitter)} })

variational_loss(x, lat_channel, device) ==
    The({ variational_loss_on(lat_channel, K_mm, K_nn, K_nm, cov_mat) :
          K_mm \in {K_mm_of_inducing},
          K_nn \in {kernel_matrix(x, x, FALSE, FALSE, TRUE, device)},
          K_nm \in {kernel_matrix(x, inducing_index_points, FALSE, TRUE, FALSE, device)},
          cov_mat \in {variational_inducing_observations_cov_mat(lat_channel)} })

\* vector (x,) minus matrix (x, x) under numpy broadcasting: the vector is
\* laid along the last axis, entry (i, j) is v[j] - Q[i][j]
BroadcastSub(v, Q) ==
    Mat([i \in 1..Rows(Q) |-> [j \in 1..Cols(Q) |-> Sub(v[j], Q[i][j])]])

\* lines 224-225 on A
posterior_B(K_xx, A, mid_mat) ==
    The({ BroadcastSub(K_xx, Q) : Q \in {MatMul(A, MatMul(mid_mat, Transpose(A)))} })

\* lines 220-227
posterior_of(lat_channel, K_mm, K_mm_inv, K_xx, K_xm, cov_mat, linalg) ==
    IF ~K_xx.ok \/ ~K_xm.ok \/ ~K_mm_inv.ok
    THEN [ok |-> FALSE, linalg |-> linalg]
    ELSE The({ [ok |-> TRUE, mean_vector |-> MatVec(A, loc[lat_channel]),
                B |-> posterior_B(K_xx.val, A, mid_mat), linalg |-> linalg] :
               A \in {MatMul(K_xm.val, K_mm_inv.val)},
               mid_mat \in {MatSub(K_mm, cov_mat)} })

approximate_posterior_params_on(index_points_test, lat_channel, device, K_mm, inv_arg) ==
    The({ posterior_of(lat_channel, K_mm, K_mm_inv, K_xx, K_xm, cov_mat, linalg) :
          cov_mat \in {variational_inducing_observations_cov_mat(lat_channel)},
          K_mm_inv \in {inv(inv_arg)},
          K_xx \in {kernel_matrix(index_points_test, index_points_test,
                                  FALSE, FALSE, TRUE, device)},
          K_xm \in {kernel_matrix(index_points_test, inducing_index_points,
                                  FALSE, TRUE, FALSE, device)},
          linalg \in {<< LinalgCall("inv", inv_arg, K_mm) >>} })

approximate_posterior_params(index_points_test, lat_channel, device) ==
    The({ The({ approximate_posterior_params_on(index_points_test, lat_channel, device,
                                                K_mm, inv_arg) :
                inv_arg \in {add_diagonal_jitter(K_mm, jitter)} }) :
          K_mm \in {K_mm_of_inducing} })

(* ----------------------- forward pass, prediction ---------------------- *)

\* aux_data[:, 1:]: the rows without their first column
SliceFrom1(aux_data) == Vec([i \in 1..Len(aux_data) |-> aux_data[i].row])

\* (a - b) ** 2
SquaredError(a, b) == The({ Mul(e, e) : e \in {Sub(a, b)} })

\* tf.reduce_sum((images - recon) ** 2) over the batch and the pixels
SumSquaredError(px, recon) ==
    SumSeq([n \in 1..Len(px) |->
        SumSeq([k \in 1..Len(px[n]) |-> SquaredError(px[n][k], recon[n][k])])])

\* the KL sum left unscaled
kl_scale_none(b) == One

\* the factor (b / svgp.N_train) of line 266
kl_scale(b) == Div(b, Num(N_train))

\* line 266
assemble_inside_elbo(inside_elbo_recon, inside_elbo_kl, b) ==
    LinSub(Lin(inside_elbo_recon), LinScale(kl_scale(b), inside_elbo_kl))

\* K of line 251
pixels_forward(w, h, c) == Mul(Mul(Num(w), Num(h)), Num(c))

\* K of line 335
pixels_predict(w, h, c) == Mul(Num(w), Num(h))

\* lines 285-286
elbo_of(bK, recon_loss, inside_elbo) ==
    LinAdd(LinAdd(LinScale(Neg(bK), Log(noise)), LinScale(Neg(Mul(Half, bK)), Log2Pi)),
           LinAdd(Lin(Neg(Mul(Mul(Half, Recip(Mul(noise, noise))), recon_loss))),
                  inside_elbo))

\* tf.stack(mean_vectors, axis = 1): (batch, L)
stack_means(per_channel, b) ==
    Mat([n \in 1..b |-> [l \in 1..Len(per_channel) |-> per_channel[l].mean_vector[n]]])

\* lines 266-289
forward_values(K, b, per_channel, recon_images_logits, recon_loss, inside_elbo_recon, inside_elbo_kl, inside_elbo, linalg) ==
    [ok |-> TRUE, elbo |-> elbo_of(Mul(b, K), recon_loss, inside_elbo),
     recon_loss |-> Div(recon_loss, K),
     KL_term |-> inside_elbo, inside_elbo |-> inside_elbo,
     recon_images |-> recon_images_logits,
     inside_elbo_recon |-> inside_elbo_recon, inside_elbo_kl |-> inside_elbo_kl,
     mean_vectors |-> stack_means(per_channel, Len(recon_images_logits)), linalg |-> linalg]

\* lines 258-266 on the per-channel values of variational_loss
forward_sums(images, decoded, K, b, per_channel, linalg) ==
    IF \E l \in 1..Len(per_channel) : ~per_channel[l].ok
    THEN [ok |-> FALSE, linalg |-> linalg]
    ELSE The({ The({ forward_values(K, b, per_channel, decoded, recon_loss,
                                    inside_elbo_recon, inside_elbo_kl, inside_elbo, linalg) :
                     inside_elbo \in {assemble_inside_elbo(inside_elbo_recon,
                                                           inside_elbo_kl, b)} }) :
               inside_elbo_recon \in {SumSeq([l \in 1..Len(per_channel) |->
                                                per_channel[l].L_3_sum_term])},
               inside_elbo_kl \in {LinSum([l \in 1..Len(per_channel) |->
                                             per_channel[l].KL_term])},
               recon_loss \in {SumSquaredError(images.px, decoded)} })

forward_channels(images, decoded, device, x) ==
    The({ The({ forward_sums(images, decoded, K, b, per_channel, linalg) :
                linalg \in {Concat([l \in 1..L |-> per_channel[l].linalg])} }) :
          K \in {pixels_forward(images.shape[1], images.shape[2], images.shape[3])},
          b \in {Num(Len(images.px))},
          per_channel \in {Vec([l \in 1..L |-> variational_loss(x, l, device)])} })

\* decoded is the value vae.decode returns for the stacked means
forward_pass_deep_SVIGP_Hensman(images, aux_data, decoded, device) ==
    The({ forward_channels(images, decoded, device, x) : x \in {SliceFrom1(aux_data)} })

\* lines 330-339 on the per-channel values of approximate_posterior_params
predict_values(images, decoded, per_channel, linalg) ==
    IF \E l \in 1..Len(per_channel) : ~per_channel[l].ok
    THEN [ok |-> FALSE, linalg |-> linalg]
    ELSE The({ [ok |-> TRUE, recon_images_test |-> decoded,
                latent_samples |-> stack_means(per_channel, Len(decoded)),
                recon_loss |-> Div(recon_loss, K), linalg |-> linalg] :
               recon_loss \in {SumSquaredError(images.px, decoded)},
               K \in {pixels_predict(images.shape[1], images.shape[2], images.shape[3])} })

predict_channels(images, decoded, device, x) ==
    The({ predict_values(images, decoded, per_channel,
                         Concat([l \in 1..L |-> per_channel[l].linalg])) :
          per_channel \in {Vec([l \in 1..L |->
                                  approximate_posterior_params(x, l, device)])} })

predict_deep_SVIGP_Hensman(images, aux_data, decoded, device) ==
    The({ predict_channels(images, decoded, device, x) : x \in {SliceFrom1(aux_data)} })

(* ------------------------------ inputs --------------------------------- *)

\* largest batch evaluated
MaxBatch == 2

\* largest image width and height, and largest number of image channels
MaxWidth == 2

MaxHeight == 1

MaxChannels == 2

\* N_train is doubled while it stays within this size
MaxNTrain == 8

Devices == {"CPU", "GPU"}

\* rows of data whose ids 0 and 1 are rows of the embedding table
ValidRows == { Row(0, Zero, V(1, 0)), Row(1, One, V(3, 4)) }

\* all rows: ids 2 and -1 are outside the table; the last row has the zero
\* object vector
DataRows == ValidRows \cup { Row(2, Num(2), V(0, 1)), Row(-1, Zero, V(0, 0)) }

BatchesOf(rows) == UNION {[1..n -> rows] : n \in 1..MaxBatch}

Batches == BatchesOf(DataRows)

\* batches of training and test data, whose ids the caller keeps inside the table
DataBatches == BatchesOf(ValidRows)

\* aux_data as the forward pass receives it: one more leading column
AuxOf(x) == Vec([i \in 1..Len(x) |-> [first |-> Zero, row |-> x[i]]])

ImageShapes == {<<w, h, c>> : w \in 1..MaxWidth, h \in 1..MaxHeight, c \in 1..MaxChannels}

PixelValues == {Zero, One}

\* b images of one shape with every pixel equal to v
Images(shape, b, v) ==
    [shape |-> shape,
     px |-> Mat([n \in 1..b |-> [k \in 1..(shape[1] * shape[2] * shape[3]) |-> v]])]

InducingInit == << Row(0, Zero, V(1, 0)), Row(1, One, V(0, 1)) >>

ObjectVectorsInit == << V(1, 0), V(3, 4) >>

\* values a training step can leave in the trainable variables
TrainedValues ==
    { [scale |-> << <<V(2, 0), V(0, 2)>>, Eye(2) >>,
       loc |-> << V(0, 0), V(0, 0) >>,
       inducing |-> InducingInit, l_GP |-> One, amplitude |-> One,
       noise |-> Frac(1, 10), table |-> ObjectVectorsInit],
      [scale |-> << <<V(1, 0), V(1, 1)>>, <<V(2, 0), V(0, 2)>> >>,
       loc |-> << V(1, 0), V(1, -1) >>,
       inducing |-> << Row(0, Zero, V(1, 0)), Row(1, Zero, V(3, 4)) >>,
       l_GP |-> One, amplitude |-> One,
       noise |-> One, table |-> << V(0, 1), V(3, 4) >>],
      [scale |-> << Eye(2), Eye(2) >>,
       loc |-> << V(0, 0), V(1, 0) >>,
       inducing |-> InducingInit, l_GP |-> Num(2), amplitude |-> One,
       noise |-> Zero, table |-> ObjectVectorsInit],
      [scale |-> << Eye(2), <<V(1, 0), V(1, 1)>> >>,
       loc |-> << V(0, 0), V(0, 0) >>,
       inducing |-> InducingInit,
       l_GP |-> One, amplitude |-> Num(2),
       noise |-> Frac(-1, 10), table |-> ObjectVectorsInit] }

(* ------------------------------ actions -------------------------------- *)

\* SVIGP_Hensman.__init__ with fixed_inducing_points = False and
\* fixed_gp_params = False (every parameter a tf.Variable), L = 2 channels and
\* M = 2 inducing points
Init ==
    /\ jitter = Frac(1, 4)
    /\ N_train = 4
    /\ K_obj_normalize \in BOOLEAN
    /\ inducing_index_points = InducingInit
    /\ l_GP = One
    /\ amplitude = One
    /\ object_vectors \in {None, ObjectVectorsInit}
    /\ loc = [l \in 1..2 |-> ZeroVec(Len(InducingInit))]
    /\ scale = [l \in 1..2 |-> Eye(Len(InducingInit))]
    /\ noise = Frac(1, 10)
    /\ res = Idle

config == <<jitter, K_obj_normalize>>

\* one optimizer step: every trainable variable is assigned
train_step ==
    /\ res = Idle
    /\ \E t \in TrainedValues :
        /\ scale' = t.scale
        /\ loc' = t.loc
        /\ noise' = t.noise
        /\ inducing_index_points' = t.inducing
        /\ l_GP' = t.l_GP
        /\ amplitude' = t.amplitude
        /\ object_vectors' = IF object_vectors = None THEN None ELSE t.table
    /\ UNCHANGED <<config, N_train, res>>

\* the same model for a training set of twice the size; a value already
\* returned stays the one computed for the old size
double_N_train ==
    /\ 2 * N_train <= MaxNTrain
    /\ N_train' = 2 * N_train
    /\ UNCHANGED <<config, inducing_index_points, l_GP, amplitude, object_vectors,
                   loc, scale, noise, res>>

run_kernel_matrix ==
    /\ res = Idle
    /\ \E x \in Batches, x_inducing \in BOOLEAN, y_inducing \in BOOLEAN,
          diag_only \in BOOLEAN, device \in Devices :
        res' = [op |-> "kernel_matrix", x |-> x, y |-> x, x_inducing |-> x_inducing,
                y_inducing |-> y_inducing, diag_only |-> diag_only, device |-> device,
                out |-> kernel_matrix(x, x, x_inducing, y_inducing, diag_only, device)]
    /\ UNCHANGED params

run_variational_loss ==
    /\ res = Idle
    /\ \E x \in Batches, lat_channel \in 1..L, device \in Devices :
        res' = [op |-> "variational_loss", x |-> x, lat_channel |-> lat_channel,
                device |-> device, out |-> variational_loss(x, lat_channel, device)]
    /\ UNCHANGED params

run_approximate_posterior_params ==
    /\ res = Idle
    /\ \E x \in Batches, lat_channel \in 1..L, device \in Devices :
        res' = [op |-> "approximate_posterior_params", x |-> x, lat_channel |-> lat_channel,
                device |-> device, out |-> approximate_posterior_params(x, lat_channel, device)]
    /\ UNCHANGED params

\* The rows of a training or test batch are rows of the embedding table, on
\* which the devices agree: the forward pass and the prediction run on one.
run_forward_pass ==
    /\ res = Idle
    /\ \E x \in DataBatches, shape \in ImageShapes, v \in PixelValues, device \in {"CPU"} :
        LET images == Images(shape, Len(x), One)
            decoded == Images(shape, Len(x), v).px
        IN res' = [op |-> "forward_pass", images |-> images, aux_data |-> AuxOf(x),
                   decoded |-> decoded, device |-> device, N_train |-> N_train,
                   out |-> forward_pass_deep_SVIGP_Hensman(images, AuxOf(x), decoded, device)]
    /\ UNCHANGED params

run_predict ==
    /\ res = Idle
    /\ \E x \in DataBatches, shape \in ImageShapes, v \in PixelValues, device \in {"CPU"} :
        LET images == Images(shape, Len(x), One)
            decoded == Images(shape, Len(x), v).px
        IN res' = [op |-> "predict", images |-> images, aux_data |-> AuxOf(x),
                   decoded |-> decoded, device |-> device,
                   out |-> predict_deep_SVIGP_Hensman(images, AuxOf(x), decoded, device)]
    /\ UNCHANGED params

\* the caller takes the value of the run
return ==
    /\ res # Idle
    /\ res' = Idle
    /\ UNCHANGED params

Next ==
    \/ train_step
    \/ double_N_train
    \/ run_kernel_matrix
    \/ run_variational_loss
    \/ run_approximate_posterior_params
    \/ run_forward_pass
    \/ run_predict
    \/ return

Spec == Init /\ [][Next]_vars

\* The same program with the runs restricted to one operation.
NextKernel == train_step \/ run_kernel_matrix \/ return

SpecKernel == Init /\ [][NextKernel]_vars

NextGP == train_step \/ run_variational_loss \/ run_approximate_posterior_params \/ return

SpecGP == Init /\ [][NextGP]_vars

NextForward == train_step \/ double_N_train \/ run_forward_pass \/ run_predict \/ return

SpecForward == Init /\ [][NextForward]_vars

(* ------------------------------- claims -------------------------------- *)

\* the last evaluation was the operation op
Ran(op) == res # Idle /\ res.op = op

\* the object id of a row lies outside the embedding table
OutsideTable(row) == CastInt64(row.id) < 0 \/ CastInt64(row.id) >= Len(object_vectors)

\* the run looked up the embedding table for a row whose id is outside it
LooksUpOutside ==
    /\ Ran("kernel_matrix")
    /\ object_vectors # None
    /\ ~res.x_inducing \/ ~res.y_inducing
    /\ \E i \in 1..Len(res.x) : OutsideTable(res.x[i])

\* C3 (as claimed): with an embedding table, kernel_matrix on a non-inducing
\* input that holds an object id outside the table fails with an error and
\* returns no kernel matrix.
C3_OutOfRangeFails == LooksUpOutside => ~res.out.ok

\* C5: kernel_matrix(x, x, diag_only = True) returns the vector whose i-th
\* entry is entry (i, i) of kernel_matrix(x, x, diag_only = False) under the
\* same flags and the same K_obj_normalize.
C5_DiagIsDiagonalOfFull ==
    (Ran("kernel_matrix") /\ res.diag_only) =>
        The({ /\ full.ok = res.out.ok
              /\ res.out.ok =>
                    /\ Len(res.out.val) = Len(res.x)
                    /\ \A i \in 1..Len(res.x) : res.out.val[i] = full.val[i][i] :
              full \in {kernel_matrix(res.x, res.y, res.x_inducing, res.y_inducing,
                                     FALSE, res.device)} })

\* a diagonal run with normalisation on two rows whose kernel values differ
C5_Witness ==
    /\ Ran("kernel_matrix") /\ res.diag_only /\ res.out.ok
    /\ K_obj_normalize /\ object_vectors # None /\ ~res.x_inducing /\ res.y_inducing
    /\ Len(res.x) = 2
    /\ IsFinite(res.out.val[1]) /\ IsFinite(res.out.val[2])
    /\ res.out.val[1] # res.out.val[2]

\* A_l A_l^T for the current value of the variable A_l
CurrentS(l) ==
    Mat([i \in 1..Len(scale[l]) |-> [j \in 1..Len(scale[l]) |->
        SumSeq([k \in 1..Len(scale[l]) |-> Mul(scale[l][i][k], scale[l][j][k])])]])

\* the matrix with the jitter on its diagonal
Jittered(base) ==
    Mat([i \in 1..Len(base) |-> [j \in 1..Len(base) |->
        IF i = j THEN Add(base[i][j], jitter) ELSE base[i][j]]])

RanGP == Ran("variational_loss") \/ Ran("approximate_posterior_params")

\* the kernel matrices of the last run, from the current parameters
RunKernels ==
    The({ [K_mm |-> K_mm, K_mm_inv |-> K_mm_inv, K_xx |-> K_xx.val, K_xm |-> K_xm.val,
           K_full |-> K_full.val, A |-> MatMul(K_xm.val, K_mm_inv)] :
          K_mm \in {K_mm_of_inducing},
          K_mm_inv \in {inv(Jittered(K_mm_of_inducing)).val},
          K_xx \in {kernel_matrix(res.x, res.x, FALSE, FALSE, TRUE, res.device)},
          K_xm \in {kernel_matrix(res.x, inducing_index_points, FALSE, TRUE, FALSE,
                                  res.device)},
          K_full \in {kernel_matrix(res.x, res.x, FALSE, FALSE, FALSE, res.device)} })

AllFinite(M) == \A i \in 1..Len(M) : \A j \in 1..Len(M[i]) : IsFinite(M[i][j])

\* A mid A^T
Sandwich(A, mid) == MatMul(A, MatMul(mid, Transpose(A)))

\* positive definite: every leading minor is positive
PosDef(M) == \A k \in 1..Len(M) : Lt(Zero, Det(Leading(M, k)))

\* C1 (as claimed): for positive-definite K_mm and S_l the KL term that
\* variational_loss returns is >= 0 (stated where the term has no logarithm
\* left, so that its sign is that of a fraction), and it is 0 when mu_l = 0 and
\* S_l = K_mm.
C1_KLNonNegative ==
    (/\ Ran("variational_loss") /\ res.out.ok
     /\ PosDef(K_mm_of_inducing) /\ PosDef(CurrentS(res.lat_channel))) =>
        /\ res.out.KL_term = Lin(res.out.KL_term.rat) => Le(Zero, res.out.KL_term.rat)
        /\ (/\ loc[res.lat_channel] = ZeroVec(nr_inducing)
            /\ CurrentS(res.lat_channel) = K_mm_of_inducing) => res.out.KL_term = Lin(Zero)

\* S_l = K_mm in a posterior run whose kernel values are finite
PosteriorAtPrior ==
    /\ Ran("approximate_posterior_params") /\ res.out.ok
    /\ CurrentS(res.lat_channel) = K_mm_of_inducing
    /\ AllFinite(RunKernels.K_xm)

\* C2 (as claimed): when S_l = K_mm the covariance approximate_posterior_params
\* returns is K_xx - K_xm K_mm^-1 K_mn; stated on its diagonal entries.
C2_ReducesToNystrom ==
    PosteriorAtPrior =>
        The({ \A i \in 1..Len(res.x) :
                 res.out.B[i][i] = Sub(k.K_xx[i], Sandwich(k.K_xm, k.K_mm_inv)[i][i]) :
              k \in {RunKernels} })

\* C2 (amended): when S_l = K_mm the correction term vanishes and the value
\* returned is the prior variance: entry (i, j) is k(x_j, x_j).
C2_PriorVarianceAtPrior ==
    PosteriorAtPrior =>
        The({ \A i, j \in 1..Len(res.x) : res.out.B[i][j] = k.K_xx[j] :
              k \in {RunKernels} })

\* S_l = K_mm for two test points of different prior variance that the
\* inducing points are correlated with
C2_Witness ==
    /\ PosteriorAtPrior
    /\ Len(res.x) = 2
    /\ RunKernels.K_xx[1] # RunKernels.K_xx[2]
    /\ \A i \in 1..2 : \E j \in 1..nr_inducing : RunKernels.K_xm[i][j] # Zero

\* C7: every matrix passed to tf.linalg.inv or tf.linalg.cholesky is K_mm or
\* S_l with the positive jitter added to its diagonal: one inverse and two
\* factorisations in variational_loss, one inverse in approximate_posterior_params.
C7_JitterBeforeFactorisation ==
    RanGP =>
        /\ Lt(Zero, jitter)
        /\ Len(res.out.linalg) = (IF Ran("variational_loss") THEN 3 ELSE 1)
        /\ \A n \in 1..Len(res.out.linalg) :
              /\ res.out.linalg[n].base \in {K_mm_of_inducing, CurrentS(res.lat_channel)}
              /\ res.out.linalg[n].arg = Jittered(res.out.linalg[n].base)
              /\ res.out.linalg[n].arg # res.out.linalg[n].base

\* a loss run after training: S_l is no longer the identity, and all three
\* factorisations succeeded
C7_Witness ==
    /\ Ran("variational_loss") /\ res.out.ok
    /\ CurrentS(res.lat_channel) # Eye(nr_inducing)
    /\ K_mm_of_inducing # Eye(nr_inducing)
    /\ res.out.linalg[3].base = CurrentS(res.lat_channel)

\* the covariance B of a posterior run, from the current parameters
CurrentB ==
    The({ Mat([i \in 1..Len(res.x) |-> [j \in 1..Len(res.x) |->
                 Sub(k.K_xx[j],
                     Sandwich(k.A, MatSub(k.K_mm, CurrentS(res.lat_channel)))[i][j])]]) :
          k \in {RunKernels} })

\* C8: a run of variational_loss or approximate_posterior_params reads the
\* current values: S_l is A_l A_l^T for the current A_l, K_mm and the other
\* kernel matrices come from the current inducing points and hyperparameters,
\* the mean from the current mu_l.
C8_CurrentValuesRead ==
    /\ Ran("variational_loss") =>
          /\ res.out.linalg[1].base = K_mm_of_inducing
          /\ res.out.linalg[3].base = CurrentS(res.lat_channel)
          /\ res.out.ok =>
                res.out.mean_vector =
                    MatVec(RunKernels.K_xm, MatVec(RunKernels.K_mm_inv, loc[res.lat_channel]))
    /\ (Ran("approximate_posterior_params") /\ res.out.ok) =>
          /\ res.out.linalg[1].base = K_mm_of_inducing
          /\ res.out.mean_vector = MatVec(RunKernels.A, loc[res.lat_channel])
          /\ res.out.B = CurrentB

\* a posterior run after training moved A_l, mu_l, the inducing points and
\* the hyperparameters away from their values at construction
C8_Witness ==
    /\ Ran("approximate_posterior_params") /\ res.out.ok
    /\ CurrentS(res.lat_channel) # Eye(nr_inducing)
    /\ loc[res.lat_channel] # ZeroVec(nr_inducing)
    /\ inducing_index_points # InducingInit
    /\ AllFinite(res.out.B)

\* C9 (as claimed): the covariance approximate_posterior_params returns, a
\* matrix of X rows and X columns, has as entry (i, j) the value
\* k(x_i, x_j) - (A (K_mm - S_l) A^T)[i, j], also for i # j.
C9_EntrywiseCovariance ==
    (/\ Ran("approximate_posterior_params") /\ res.out.ok
     /\ AllFinite(RunKernels.K_full)) =>
        The({ \A i, j \in 1..Len(res.x) :
                 res.out.B[i][j] =
                    Sub(k.K_full[i][j],
                        Sandwich(k.A, MatSub(k.K_mm, CurrentS(res.lat_channel)))[i][j]) :
              k \in {RunKernels} })

\* C4 (as claimed): with noise <= 0 the forward pass ends in an error at the
\* first use of noise and returns no ELBO or loss value.
C4_NonPositiveNoiseFails ==
    (Ran("forward_pass") /\ Le(noise, Zero)) => ~res.out.ok

\* the rows of aux_data of the last forward or predict run
RunRows == SliceFrom1(res.aux_data)

\* C6: the forward pass returns inside_elbo = sum_l L_3_l - (B / N_train) *
\* sum_l KL_l with the reconstruction sum unscaled; and once N_train is doubled,
\* with the batch and the parameters as they were, each variational_loss call
\* still gives the values the run summed, while the factor B / N_train is half
\* the one the run applied.
C6_KLScaledByBatchOverNTrain ==
    (Ran("forward_pass") /\ res.out.ok) =>
        /\ res.out.inside_elbo_recon =
              SumSeq([l \in 1..L |-> variational_loss(RunRows, l, res.device).L_3_sum_term])
        /\ res.out.inside_elbo_kl =
              LinSum([l \in 1..L |-> variational_loss(RunRows, l, res.device).KL_term])
        /\ res.out.inside_elbo =
              LinSub(Lin(res.out.inside_elbo_recon),
                     LinScale(Frac(Len(RunRows), res.N_train), res.out.inside_elbo_kl))
        /\ N_train = 2 * res.N_train =>
              kl_scale(Num(Len(RunRows))) = Mul(Half, Frac(Len(RunRows), res.N_train))

\* N_train doubled after a forward pass of two rows whose KL sum is not zero
C6_Witness ==
    /\ Ran("forward_pass") /\ res.out.ok
    /\ res.N_train = 4 /\ N_train = 8
    /\ Len(res.aux_data) = 2
    /\ res.out.inside_elbo_kl # Lin(Zero)
    /\ res.out.inside_elbo # Lin(res.out.inside_elbo_recon)

\* C10 (as claimed): the reconstruction error predict reports is the summed
\* squared error over K = w * h * c, and equals the one the forward pass
\* reports for the same images and the same decoder output.
C10_SamePixelCount ==
    (Ran("predict") /\ res.out.ok) =>
        /\ res.out.recon_loss =
              Div(SumSquaredError(res.images.px, res.decoded),
                  Num(res.images.shape[1] * res.images.shape[2] * res.images.shape[3]))
        /\ The({ fwd.ok => res.out.recon_loss = fwd.recon_loss :
                 fwd \in {forward_pass_deep_SVIGP_Hensman(res.images, res.aux_data,
                                                          res.decoded, res.device)} })
====
